---- MODULE Spec2Model ----
(***************************************************************************)
(* Bilingual alignment and chunking pipeline of build_chunks.py:           *)
(* process_bilingual_pdfs -> extract_blocks -> align_blocks ->             *)
(* create_bilingual_chunks -> artifacts, followed as in the main block by  *)
(* load_cultural_semantics.                                                *)
(*                                                                         *)
(* Strings are kept exactly, in run-length form: a text is a sequence of   *)
(* atoms [c, n], the character c repeated n times.  Only letters and       *)
(* spaces carry a run n > 1; newlines, punctuation and the letters of the  *)
(* markers are single characters (n = 1).  Numbers (800, 100, 120) are the *)
(* program's.                                                              *)
(***************************************************************************)
EXTENDS Integers, Sequences, FiniteSets, TLC

VARIABLES
  dir_exists,   \* BILINGUAL_DIR.exists()
  docs,         \* the PDFs of BILINGUAL_DIR, in sorted(glob) order
  pc,           \* position in process_bilingual_pdfs
  d,            \* index of pdf_path in pdf_paths
  blocks,       \* extract_blocks' result for the current PDF
  i,            \* index of b in blocks (align_blocks' loop)
  pending_en,   \* align_blocks' pending_en
  pairs,        \* align_blocks' pairs
  pending_at,   \* history: the index in blocks of pending_en
  origin,       \* history: for each pair, the indices in blocks of its spans
  chunks,       \* create_bilingual_chunks' result for the current PDF
  all_chunks,   \* process_bilingual_pdfs' all_chunks
  jsonl,        \* the rows of artifacts/bilingual_chunks.jsonl (and .csv)
  cs_exists,    \* CS_JSON_PATH.exists()
  data,         \* json.load of CS_JSON_PATH
  e,            \* index of entry in entries (load_cultural_semantics' loop)
  records,      \* load_cultural_semantics' records
  cs_jsonl,     \* the rows of artifacts/cultural_semantics_entries.jsonl (and .csv)
  sa_pc,        \* position in SafetyAgent.scan_input
  sa_text,      \* scan_input's text
  sa_use_llm,   \* SafetyAgent.use_llm
  sa_client,    \* SafetyAgent.client is not None
  sa_llm,       \* what the chat completion does when it is called
  sa_calls,     \* history: the number of chat completions requested
  sa_result,    \* scan_input's return value
  ui_user,      \* st.session_state.user
  ui_chat,      \* st.session_state.chat
  ui_session_id,\* st.session_state.session_id
  ui_summary,   \* st.session_state.summary_text
  ui_results,   \* history: the results of process_message since chat was last emptied
  up_loop,      \* which upload loop runs: "bilingual", "cultural" or "clean"
  up_pc,        \* position in the upload loop
  up_n,         \* the number of records in the file (of chunks, for "clean")
  up_k,         \* the number of lines read (the start index i, for "clean")
  up_batch,     \* batch
  up_upserted,  \* the batches index.upsert received, in call order
  ct_pc,        \* position in chunk_text
  ct_text,      \* chunk_text's text
  ct_chunk_size,\* chunk_text's chunk_size
  ct_overlap,   \* chunk_text's overlap
  ct_start,     \* chunk_text's start
  ct_chunks,    \* chunk_text's chunks
  ct_iters,     \* history: the number of iterations of chunk_text's loop
  ct_result     \* chunk_text's return value

pdf_vars == <<dir_exists, docs, d, blocks, i, pending_en, pairs, pending_at,
              origin, chunks, all_chunks, jsonl>>
cs_vars == <<cs_exists, data, e, records, cs_jsonl>>
sa_vars == <<sa_pc, sa_text, sa_use_llm, sa_client, sa_llm, sa_calls, sa_result>>
\* The state of the programs other than build_chunks.py.
ui_vars == <<ui_user, ui_chat, ui_session_id, ui_summary, ui_results>>
up_vars == <<up_loop, up_pc, up_n, up_k, up_batch, up_upserted>>
ct_vars == <<ct_pc, ct_text, ct_chunk_size, ct_overlap, ct_start, ct_chunks,
             ct_iters, ct_result>>
other_vars == <<sa_vars, ui_vars, up_vars, ct_vars>>
\* What SafetyAgent, the UI, the upload loops and chunk_text each leave alone.
not_sa_vars == <<pc, pdf_vars, cs_vars, ui_vars, up_vars, ct_vars>>
not_ui_vars == <<pc, pdf_vars, cs_vars, sa_vars, up_vars, ct_vars>>
not_up_vars == <<pc, pdf_vars, cs_vars, sa_vars, ui_vars, ct_vars>>
not_ct_vars == <<pc, pdf_vars, cs_vars, sa_vars, ui_vars, up_vars>>
vars == <<pc, pdf_vars, cs_vars, other_vars>>

\* ------------------------------------------------------------------ bounds
MaxSpans == 3
MaxDocs == 2
MaxEntries == 2
MaxSends == 3
MaxRecords == 130
MaxRuns == 2
MaxIters == 50

\* ------------------------------------------------------------- characters
NL == "\n"
SP == " "
\* One letter of the Latin script and one of the Devanagari block U+0900..U+097F.
LatinLetter == "a"
Devanagari == {"ka"}
Whitespace == {SP, NL}

Atom(c, n) == [c |-> c, n |-> n]
Str(cs) == [k \in 1..Len(cs) |-> Atom(cs[k], 1)]

RECURSIVE TLen(_)
TLen(t) == IF t = <<>> THEN 0 ELSE Head(t).n + TLen(Tail(t))

RECURSIVE LStrip(_)
LStrip(t) == IF t # <<>> /\ Head(t).c \in Whitespace THEN LStrip(Tail(t)) ELSE t

RECURSIVE RStrip(_)
RStrip(t) ==
  IF t # <<>> /\ t[Len(t)].c \in Whitespace
  THEN RStrip(SubSeq(t, 1, Len(t) - 1))
  ELSE t

\* str.strip()
Strip(t) == RStrip(LStrip(t))

\* The characters of pat occur in t at position k.
MatchAt(t, pat, k) ==
  /\ k + Len(pat) - 1 <= Len(t)
  /\ \A j \in 1..Len(pat) : t[k + j - 1].c = pat[j] /\ t[k + j - 1].n = 1

\* pat in t
Contains(t, pat) == \E k \in 1..Len(t) : MatchAt(t, pat, k)

\* Optional values: None, or a one-element sequence holding the value.
None == <<>>
Some(x) == <<x>>

Abs(x) == IF x < 0 THEN -x ELSE x

SeqsUpTo(S, n) == UNION {[1..k -> S] : k \in 0..n}

\* -------------------------------------------------------- extract_blocks
SortKeyLeq(a, b) ==
  \/ a.page < b.page
  \/ a.page = b.page /\ a.y0 < b.y0
  \/ a.page = b.page /\ a.y0 = b.y0 /\ a.x0 <= b.x0

\* Stable insertion: b goes after every element whose key is <= its own.
RECURSIVE InsertSorted(_, _)
InsertSorted(s, b) ==
  IF s = <<>> THEN <<b>>
  ELSE IF SortKeyLeq(s[Len(s)], b) THEN Append(s, b)
  ELSE Append(InsertSorted(SubSeq(s, 1, Len(s) - 1), b), s[Len(s)])

\* Mutation: the spans are left in extraction order.
SortBlocksUnsorted(s) == s

RECURSIVE SortBlocks(_)
SortBlocks(s) ==
  IF s = <<>> THEN <<>>
  ELSE InsertSorted(SortBlocks(SubSeq(s, 1, Len(s) - 1)), s[Len(s)])

\* Mutation: empty spans are not skipped.
KeepSpanAlways(span) == TRUE

\* A span whose text is empty after strip() is skipped.
KeepSpan(span) == Strip(span.text) # <<>>

RECURSIVE StripSpans(_)
StripSpans(spans) ==
  IF spans = <<>> THEN <<>>
  ELSE LET span == Head(spans)
           rest == StripSpans(Tail(spans))
       IN  IF KeepSpan(span)
           THEN <<[span EXCEPT !.text = Strip(span.text)]>> \o rest
           ELSE rest

extract_blocks(spans) == SortBlocks(StripSpans(spans))

\* ------------------------------------------------------- detect_language
StartsWith(s, p) == Len(s) >= Len(p) /\ SubSeq(s, 1, Len(p)) = p

HasDevanagari(t) == \E k \in 1..Len(t) : t[k].c \in Devanagari

\* Mutation: the fallback detector is asked before the script is looked at.
detect_languageFallbackFirst(b) ==
  IF b.detect.raises THEN "en"
  ELSE IF StartsWith(b.detect.lang, <<"h", "i">>) THEN "hi"
  ELSE IF StartsWith(b.detect.lang, <<"e", "n">>) THEN "en"
  ELSE IF HasDevanagari(b.text) THEN "hi"
  ELSE "en"

\* Mutation: a failure of the detector is answered with "hi".
detect_languageHiOnFailure(b) ==
  IF HasDevanagari(b.text) THEN "hi"
  ELSE IF b.detect.raises THEN "hi"
  ELSE IF StartsWith(b.detect.lang, <<"h", "i">>) THEN "hi"
  ELSE "en"

\* Mutation: a code that is neither hi nor en gives a third tag.
detect_languageOther(b) ==
  IF HasDevanagari(b.text) THEN "hi"
  ELSE IF b.detect.raises THEN "en"
  ELSE IF StartsWith(b.detect.lang, <<"h", "i">>) THEN "hi"
  ELSE IF StartsWith(b.detect.lang, <<"e", "n">>) THEN "en"
  ELSE "other"

\* b.detect is the answer langdetect's detect() gives for b.text:
\* [raises, lang], lang a language code as a sequence of characters.
detect_language(b) ==
  IF HasDevanagari(b.text) THEN "hi"
  ELSE IF b.detect.raises THEN "en"
  ELSE IF StartsWith(b.detect.lang, <<"h", "i">>) THEN "hi"
  ELSE IF StartsWith(b.detect.lang, <<"e", "n">>) THEN "en"
  ELSE "en"

\* ---------------------------------------------------------- align_blocks
y_tolerance == 120

Pair(en, hi, page_en, page_hi) ==
  [en |-> en, hi |-> hi, meta |-> [page_en |-> page_en, page_hi |-> page_hi]]

OrphanEn(p) == Pair(p.text, <<>>, Some(p.page), None)
OrphanHi(b) == Pair(<<>>, b.text, None, Some(b.page))
Paired(p, b) == Pair(p.text, b.text, Some(p.page), Some(b.page))

\* Mutation: the tolerance boundary is exclusive.
GoodAlignmentStrict(pending, b) ==
  /\ pending # None
  /\ b.page = pending[1].page
  /\ Abs(b.y0 - pending[1].y0) < y_tolerance

\* if pending_en and b["page"] == pending_en["page"] and abs(...) <= y_tolerance
GoodAlignment(pending, b) ==
  /\ pending # None
  /\ b.page = pending[1].page
  /\ Abs(b.y0 - pending[1].y0) <= y_tolerance

\* Mutation: a new EN span overwrites the pending one without flushing it.
ScanEmitOverwrite(pending, b) ==
  IF detect_language(b) = "en" THEN <<>>
  ELSE IF detect_language(b) = "hi"
  THEN IF GoodAlignment(pending, b) THEN <<Paired(pending[1], b)>>
       ELSE <<OrphanHi(b)>>
  ELSE <<>>

\* One iteration of "for b in blocks": the pairs appended and the new pending_en.
\* A span that is neither "en" nor "hi" matches no branch and emits nothing.
ScanEmit(pending, b) ==
  IF detect_language(b) = "en"
  THEN IF pending # None THEN <<OrphanEn(pending[1])>> ELSE <<>>
  ELSE IF detect_language(b) = "hi"
  THEN IF GoodAlignment(pending, b) THEN <<Paired(pending[1], b)>>
       ELSE <<OrphanHi(b)>>
  ELSE <<>>

\* Mutation: an orphan Hindi span clears pending_en.
ScanPendingCleared(pending, b) ==
  IF detect_language(b) = "en" THEN Some(b)
  ELSE IF detect_language(b) = "hi" THEN None
  ELSE pending

\* Mutation: pending_en is kept after a good alignment.
ScanPendingKept(pending, b) ==
  IF detect_language(b) = "en" THEN Some(b) ELSE pending

ScanPending(pending, b) ==
  IF detect_language(b) = "en" THEN Some(b)
  ELSE IF detect_language(b) = "hi" /\ GoodAlignment(pending, b) THEN None
  ELSE pending

\* Mutation: the last pending EN is not flushed.
FlushEmitNothing(pending) == <<>>

\* "if pending_en:" after the loop.
FlushEmit(pending) ==
  IF pending # None THEN <<OrphanEn(pending[1])>> ELSE <<>>

\* ------------------------------------------- RecursiveCharacterTextSplitter
chunk_size == 800
chunk_overlap == 100
separators == <<<<NL, NL>>, <<NL>>, <<".">>, <<"!">>, <<"?">>>>

Concat(ts) == IF ts = <<>> THEN <<>> ELSE
  LET RECURSIVE Cat(_)
      Cat(k) == IF k > Len(ts) THEN <<>> ELSE ts[k] \o Cat(k + 1)
  IN  Cat(1)

\* re.split with the separator kept at the start of the piece that follows it;
\* empty pieces are dropped.
RECURSIVE SplitFrom(_, _, _, _, _)
SplitFrom(t, sep, k, cur, acc) ==
  LET out == IF cur = <<>> THEN acc ELSE Append(acc, cur)
  IN  IF k > Len(t) THEN out
      ELSE IF MatchAt(t, sep, k)
      THEN SplitFrom(t, sep, k + Len(sep), SubSeq(t, k, k + Len(sep) - 1), out)
      ELSE SplitFrom(t, sep, k + 1, Append(cur, t[k]), acc)

SplitWithRegex(t, sep) == SplitFrom(t, sep, 1, <<>>, <<>>)

\* _merge_splits' inner while loop: drop pieces from the front of current_doc.
RECURSIVE PopOverlap(_, _, _)
PopOverlap(cur, total, len) ==
  IF total > chunk_overlap \/ (total + len > chunk_size /\ total > 0)
  THEN PopOverlap(Tail(cur), total - TLen(Head(cur)), len)
  ELSE [cur |-> cur, total |-> total]

\* _join_docs: join with the merge separator "" and strip; None when empty.
JoinDocs(cur) ==
  LET text == Strip(Concat(cur)) IN IF text = <<>> THEN None ELSE Some(text)

\* _merge_splits with separator "" (keep_separator is left at its default).
RECURSIVE MergeFrom(_, _, _, _, _)
MergeFrom(splits, k, cur, total, out) ==
  IF k > Len(splits) THEN out \o JoinDocs(cur)
  ELSE LET len == TLen(splits[k])
           over == total + len > chunk_size /\ Len(cur) > 0
           kept == IF over THEN PopOverlap(cur, total, len)
                   ELSE [cur |-> cur, total |-> total]
       IN  MergeFrom(splits, k + 1, Append(kept.cur, splits[k]),
                     kept.total + len,
                     IF over THEN out \o JoinDocs(cur) ELSE out)

MergeSplits(splits) == MergeFrom(splits, 1, <<>>, 0, <<>>)

\* The first separator found in the text, or the last one when none is.
ChooseSeparator(t, seps) ==
  IF \E k \in 1..Len(seps) : Contains(t, seps[k])
  THEN CHOOSE k \in 1..Len(seps) :
         /\ Contains(t, seps[k])
         /\ \A j \in 1..(k - 1) : ~Contains(t, seps[j])
  ELSE 0

\* A piece of chunk_size or more with no separator left is kept whole.
Unsplittable(s) == <<s>>

RECURSIVE SplitText(_, _)
RECURSIVE SplitPieces(_, _, _, _, _)

\* _split_text's loop over splits.
SplitPieces(splits, k, good, final, new_separators) ==
  IF k > Len(splits)
  THEN IF good # <<>> THEN final \o MergeSplits(good) ELSE final
  ELSE LET s == splits[k] IN
       IF TLen(s) < chunk_size
       THEN SplitPieces(splits, k + 1, Append(good, s), final, new_separators)
       ELSE LET merged == IF good # <<>> THEN final \o MergeSplits(good) ELSE final
                other  == IF new_separators = <<>> THEN Unsplittable(s)
                          ELSE SplitText(s, new_separators)
            IN  SplitPieces(splits, k + 1, <<>>, merged \o other, new_separators)

\* _split_text
SplitText(t, seps) ==
  LET k == ChooseSeparator(t, seps)
      separator == IF k = 0 THEN seps[Len(seps)] ELSE seps[k]
      new_separators == IF k = 0 THEN <<>> ELSE SubSeq(seps, k + 1, Len(seps))
  IN  SplitPieces(SplitWithRegex(t, separator), 1, <<>>, <<>>, new_separators)

\* Mutation: the texts are joined by blank lines and split as one text.
RECURSIVE JoinTexts(_)
JoinTexts(texts) ==
  IF Len(texts) <= 1 THEN Concat(texts)
  ELSE Head(texts) \o Str(<<NL, NL>>) \o JoinTexts(Tail(texts))

create_documents_joined(texts) == SplitText(JoinTexts(texts), separators)

\* create_documents: every text is split on its own, in order.
RECURSIVE create_documents(_)
create_documents(texts) ==
  IF texts = <<>> THEN <<>>
  ELSE SplitText(Head(texts), separators) \o create_documents(Tail(texts))

\* ----------------------------------------------- create_bilingual_chunks
EN_MARK == <<"E", "N", ":">>
HI_MARK == <<"H", "I", ":">>

\* block_text of one pair
FormatBlock(p) ==
  LET en_part == IF p.en # <<>> THEN Str(EN_MARK) \o Str(<<SP>>) \o p.en ELSE <<>>
      hi_part == IF p.hi # <<>>
                 THEN (IF en_part # <<>> THEN Str(<<NL>>) ELSE <<>>)
                      \o Str(HI_MARK) \o Str(<<SP>>) \o p.hi
                 ELSE <<>>
  IN  en_part \o hi_part

RECURSIVE FormattedBlocks(_)
FormattedBlocks(ps) ==
  IF ps = <<>> THEN <<>>
  ELSE LET p == Head(ps) IN
       IF p.en = <<>> /\ p.hi = <<>> THEN FormattedBlocks(Tail(ps))
       ELSE <<FormatBlock(p)>> \o FormattedBlocks(Tail(ps))

\* Mutation: one marker is enough for "perfect".
AlignmentStatusEither(text) ==
  IF Contains(text, EN_MARK) \/ Contains(text, HI_MARK) THEN "perfect" ELSE "partial"

AlignmentStatus(text) ==
  IF Contains(text, EN_MARK) /\ Contains(text, HI_MARK) THEN "perfect" ELSE "partial"

Digits == <<"0", "1", "2", "3", "4", "5", "6", "7", "8", "9">>

\* str(n) for n >= 0, as a sequence of characters
RECURSIVE Decimal(_)
Decimal(n) ==
  IF n < 10 THEN <<Digits[n + 1]>>
  ELSE Decimal(n \div 10) \o <<Digits[(n % 10) + 1]>>

CHUNK_INFIX == <<"_", "c", "h", "u", "n", "k", "_">>

\* Mutation: the chunks are numbered from 0.
ChunkIdFromZero(source_name, k) == source_name \o CHUNK_INFIX \o Decimal(k - 1)

\* f"{source_name}_chunk_{i}", i counted from 1
ChunkId(source_name, k) == source_name \o CHUNK_INFIX \o Decimal(k)

Chunk(source_name, k, page_content) ==
  LET text == Strip(page_content) IN
  [chunk_id |-> ChunkId(source_name, k),
   source |-> source_name,
   language |-> "hi-en",
   alignment_status |-> AlignmentStatus(text),
   length |-> TLen(text),
   text |-> text]

create_bilingual_chunks(ps, source_name) ==
  LET formatted_blocks == FormattedBlocks(ps)
      docs_ == IF formatted_blocks = <<>> THEN <<>>
               ELSE create_documents(formatted_blocks)
  IN  [k \in 1..Len(docs_) |-> Chunk(source_name, k, docs_[k])]

\* ------------------------------------------------- load_cultural_semantics
\* entry.get(key, default): a key the JSON object lacks is None in the model.
Get(entry, key, default) == IF entry[key] = None THEN default ELSE entry[key][1]

\* sep.join(items)
RECURSIVE Join(_, _)
Join(sep, items) ==
  IF items = <<>> THEN <<>>
  ELSE IF Len(items) = 1 THEN items[1]
  ELSE items[1] \o Str(sep) \o Join(sep, Tail(items))

NA == <<"N", "/", "A">>
LITERAL == <<"L", "i", "t", "e", "r", "a", "l", ":">>
MEANING == <<"M", "e", "a", "n", "i", "n", "g", ":">>
CONTEXT ==
  <<"C", "u", "l", "t", "u", "r", "a", "l", SP, "c", "o", "n", "t", "e", "x", "t", ":">>
SYNONYMS ==
  <<"S", "y", "n", "o", "n", "y", "m", "s", "/", "v", "a", "r", "i", "a", "n", "t", "s",
    ":">>
QUESTIONS ==
  <<"D", "i", "s", "a", "m", "b", "i", "g", "u", "a", "t", "i", "o", "n", SP,
    "q", "u", "e", "s", "t", "i", "o", "n", "s", ":">>

\* Mutation: an empty list is joined like any other.
RenderListBlank(sep, items) == Join(sep, items)

\* sep.join(items) if items else 'N/A'
RenderList(sep, items) == IF items # <<>> THEN Join(sep, items) ELSE Str(NA)

\* Lines 239-246.
canonical_text(entry) ==
  LET native   == Get(entry, "expression_native", <<>>)
      translit == Get(entry, "expression_translit", <<>>)
      literal  == Get(entry, "literal_translation", <<>>)
      clinical == Get(entry, "clinical_meaning", <<>>)
      context  == Get(entry, "cultural_context", <<>>)
      synonyms == Get(entry, "synonyms_variants", <<>>)
      disamb   == Get(entry, "disambiguation_questions", <<>>)
  IN  Strip(native \o Str(<<SP, "(">>) \o translit \o Str(<<")", NL>>)
            \o Str(LITERAL) \o Str(<<SP>>) \o literal \o Str(<<NL>>)
            \o Str(MEANING) \o Str(<<SP>>) \o clinical \o Str(<<NL>>)
            \o Str(CONTEXT) \o Str(<<SP>>) \o context \o Str(<<NL>>)
            \o Str(SYNONYMS) \o Str(<<SP>>) \o RenderList(<<",", SP>>, synonyms)
            \o Str(<<NL>>)
            \o Str(QUESTIONS) \o Str(<<SP>>) \o RenderList(<<SP, "|", SP>>, disamb))

\* Lines 248-258.
Record(entry) ==
  [id |-> entry["id"],
   text |-> canonical_text(entry),
   metadata |->
     [source |-> "cultural_semantics",
      language_pair |-> Get(entry, "language_pair", "hi-en"),
      category |-> Get(entry, "category", ""),
      severity_hint |-> Get(entry, "severity_hint", ""),
      risk_flag |-> Get(entry, "risk_flag", FALSE)]]

\* ============================================ core/agents/safety_agent.py
\* Texts here are sequences of single characters.
SpaceChars == {" ", "\n", "\t"}
UpperCase ==
  <<"A", "B", "C", "D", "E", "F", "G", "H", "I", "J", "K", "L", "M", "N", "O", "P", "Q",
    "R", "S", "T", "U", "V", "W", "X", "Y", "Z">>
LowerCase ==
  <<"a", "b", "c", "d", "e", "f", "g", "h", "i", "j", "k", "l", "m", "n", "o", "p", "q",
    "r", "s", "t", "u", "v", "w", "x", "y", "z">>

LowerOf ==
  [c \in {UpperCase[k] : k \in 1..Len(UpperCase)} |->
     LowerCase[CHOOSE k \in 1..Len(UpperCase) : UpperCase[k] = c]]

\* str.lower() of one character
Lower(c) == IF c \in DOMAIN LowerOf THEN LowerOf[c] ELSE c

\* text.lower()
Lowered(t) == [k \in 1..Len(t) |-> Lower(t[k])]

\* not text or not text.strip()
IsBlank(t) == \A k \in 1..Len(t) : t[k] \in SpaceChars

\* The elements of the patterns other than a literal character.
SPACES == "\\s+"
OPT_SPACES == "\\s*"
ANY == ".+"

\* The element x of a pattern matches the characters j..j+n-1 of t.
Run(x, t, j, n) ==
  /\ j + n - 1 <= Len(t)
  /\ \A m \in j..(j + n - 1) :
       IF x = ANY THEN t[m] # "\n" ELSE t[m] \in SpaceChars

\* re.match of the elements k.. of pattern p at position j of t, re.IGNORECASE.
RECURSIVE MatchFrom(_, _, _, _)
MatchFrom(p, k, t, j) ==
  IF k > Len(p) THEN TRUE
  ELSE IF p[k] \in {SPACES, ANY}
  THEN \E n \in 1..(Len(t) - j + 1) : Run(p[k], t, j, n) /\ MatchFrom(p, k + 1, t, j + n)
  ELSE IF p[k] = OPT_SPACES
  THEN \E n \in 0..(Len(t) - j + 1) : Run(p[k], t, j, n) /\ MatchFrom(p, k + 1, t, j + n)
  ELSE j <= Len(t) /\ Lower(t[j]) = Lower(p[k]) /\ MatchFrom(p, k + 1, t, j + 1)

\* re.search(p, text, re.IGNORECASE)
re_search(p, t) == \E j \in 1..(Len(t) + 1) : MatchFrom(p, 1, t, j)

injection_patterns ==
  <<
     <<"i", "g", "n", "o", "r", "e", SPACES, "p", "r", "e", "v", "i", "o", "u", "s",
       SPACES, "i", "n", "s", "t", "r", "u", "c", "t", "i", "o", "n", "s">>,
     <<"i", "g", "n", "o", "r", "e", SPACES, "a", "l", "l", SPACES, "p", "r", "i", "o",
       "r", SPACES, "i", "n", "s", "t", "r", "u", "c", "t", "i", "o", "n", "s">>,
     <<"d", "i", "s", "r", "e", "g", "a", "r", "d", SPACES, "e", "a", "r", "l", "i", "e",
       "r", SPACES, "g", "u", "i", "d", "e", "l", "i", "n", "e", "s">>,
     <<"y", "o", "u", SPACES, "a", "r", "e", SPACES, "n", "o", SPACES, "l", "o", "n",
       "g", "e", "r", SPACES, "b", "o", "u", "n", "d">>,
     <<"p", "r", "e", "t", "e", "n", "d", SPACES, "t", "o", SPACES, "b", "e", SPACES,
       "s", "y", "s", "t", "e", "m">>,
     <<"r", "e", "v", "e", "a", "l", SPACES, "s", "y", "s", "t", "e", "m", SPACES, "p",
       "r", "o", "m", "p", "t">>,
     <<"s", "h", "o", "w", SPACES, "m", "e", SPACES, "y", "o", "u", "r", SPACES, "p",
       "r", "o", "m", "p", "t">>,
     <<"w", "h", "a", "t", SPACES, "i", "s", SPACES, "i", "n", SPACES, "y", "o", "u",
       "r", SPACES, "s", "y", "s", "t", "e", "m", SPACES, "i", "n", "s", "t", "r", "u",
       "c", "t", "i", "o", "n", "s">>,
     <<"a", "s", SPACES, "c", "h", "a", "t", "g", "p", "t">>
  >>

secrets_patterns ==
  <<
     <<".", "e", "n", "v">>,
     <<"o", "p", "e", "n", "a", "i", "_", "a", "p", "i", "_", "k", "e", "y">>,
     <<"o", "p", "e", "n", "a", "i", ".", "a", "p", "i", "_", "k", "e", "y">>,
     <<"p", "i", "n", "e", "c", "o", "n", "e", "_", "a", "p", "i", "_", "k", "e", "y">>,
     <<"a", "c", "c", "e", "s", "s", OPT_SPACES, "t", "o", "k", "e", "n">>,
     <<"a", "u", "t", "h", "o", "r", "i", "z", "a", "t", "i", "o", "n", ":", OPT_SPACES,
       "b", "e", "a", "r", "e", "r">>
  >>

db_fs_patterns ==
  <<
     <<"s", "e", "l", "e", "c", "t", SPACES, ANY, SPACES, "f", "r", "o", "m", SPACES>>,
     <<"d", "r", "o", "p", SPACES, "t", "a", "b", "l", "e">>,
     <<"t", "r", "u", "n", "c", "a", "t", "e", SPACES, "t", "a", "b", "l", "e">>,
     <<"u", "n", "i", "o", "n", SPACES, "s", "e", "l", "e", "c", "t">>,
     <<"i", "n", "s", "e", "r", "t", SPACES, "i", "n", "t", "o", SPACES>>,
     <<"u", "p", "d", "a", "t", "e", SPACES, ANY, SPACES, "s", "e", "t", SPACES>>,
     <<"d", "e", "l", "e", "t", "e", SPACES, "f", "r", "o", "m", SPACES>>,
     <<"s", "h", "o", "w", SPACES, "t", "a", "b", "l", "e", "s">>,
     <<"l", "i", "s", "t", SPACES, "f", "i", "l", "e", "s">>,
     <<"r", "e", "a", "d", SPACES, "f", "i", "l", "e">>
  >>

code_exec_patterns ==
  <<
     <<"i", "m", "p", "o", "r", "t", SPACES, "o", "s">>,
     <<"i", "m", "p", "o", "r", "t", SPACES, "s", "u", "b", "p", "r", "o", "c", "e", "s",
       "s">>,
     <<"s", "u", "b", "p", "r", "o", "c", "e", "s", "s", ".", "r", "u", "n">>,
     <<"o", "s", ".", "s", "y", "s", "t", "e", "m">>,
     <<"e", "v", "a", "l", "(">>,
     <<"e", "x", "e", "c", "(">>,
     <<"_", "_", "i", "m", "p", "o", "r", "t", "_", "_", "(">>,
     <<"c", "u", "r", "l", SPACES, "h", "t", "t", "p">>,
     <<"w", "g", "e", "t", SPACES, "h", "t", "t", "p">>
  >>

\* Mutation: only the first pattern of a list is tried.
match_first(text, patterns) == patterns # <<>> /\ re_search(patterns[1], text)

\* SafetyAgent._match_any
match_any(text, patterns) == \E k \in 1..Len(patterns) : re_search(patterns[k], text)

INJECTION == "Prompt injection-like attempt detected."
SECRETS == "Attempt to access secrets or environment configuration."
DB_FS == "Suspicious database or filesystem access pattern."
CODE_EXEC == "Suspicious code execution / system command pattern."

Verdict(safe, reason) == [safe |-> safe, reason |-> reason]

\* Lines 92-120: the verdict of the blank test and of the heuristics, if any.
Heuristics(text) ==
  LET lowered == Lowered(text) IN
    IF IsBlank(text) THEN Some(Verdict(TRUE, "empty_or_whitespace"))
    ELSE IF match_any(lowered, injection_patterns) THEN Some(Verdict(FALSE, INJECTION))
    ELSE IF match_any(lowered, secrets_patterns) THEN Some(Verdict(FALSE, SECRETS))
    ELSE IF match_any(lowered, db_fs_patterns) THEN Some(Verdict(FALSE, DB_FS))
    ELSE IF match_any(lowered, code_exec_patterns) THEN Some(Verdict(FALSE, CODE_EXEC))
    ELSE None

\* What the chat completion gives: kind is "api_error" (create raises),
\* "no_content" (content is None), "not_json" (json.loads raises), "not_object"
\* (JSON, but no object) or "object"; safe and reason are the JSON texts of
\* these fields of the object, None when it lacks them.
Llm(kind, safe, reason) == [kind |-> kind, safe |-> safe, reason |-> reason]

\* Mutation: every answer whose "safe" is falsy is trusted.
LlmSaysUnsafeFalsy(llm) ==
  llm.kind = "object" /\ llm.safe \in {Some("false"), Some("0"), Some("null")}

\* data.get("safe") is False
LlmSaysUnsafe(llm) == llm.kind = "object" /\ llm.safe = Some("false")

\* Lines 124-170: the verdict once the chat completion has been requested.
LlmVerdict(llm) ==
  IF LlmSaysUnsafe(llm)
  THEN Verdict(FALSE, Get(llm, "reason", "Flagged as unsafe by security model."))
  ELSE Verdict(TRUE, "ok")

SafetyTexts ==
  {
    <<"i", "g", "n", "o", "r", "e", " ", "p", "r", "e", "v", "i", "o", "u", "s", " ",
      "i", "n", "s", "t", "r", "u", "c", "t", "i", "o", "n", "s">>,
    <<"i", "g", "n", "o", "r", "e", " ", "a", "l", "l", " ", "p", "r", "i", "o", "r",
      " ", "i", "n", "s", "t", "r", "u", "c", "t", "i", "o", "n", "s">>,
    <<"d", "i", "s", "r", "e", "g", "a", "r", "d", " ", "e", "a", "r", "l", "i", "e",
      "r", " ", "g", "u", "i", "d", "e", "l", "i", "n", "e", "s">>,
    <<"y", "o", "u", " ", "a", "r", "e", " ", "n", "o", " ", "l", "o", "n", "g", "e",
      "r", " ", "b", "o", "u", "n", "d">>,
    <<"p", "r", "e", "t", "e", "n", "d", " ", "t", "o", " ", "b", "e", " ", "s", "y",
      "s", "t", "e", "m">>,
    <<"r", "e", "v", "e", "a", "l", " ", "s", "y", "s", "t", "e", "m", " ", "p", "r",
      "o", "m", "p", "t">>,
    <<"s", "h", "o", "w", " ", "m", "e", " ", "y", "o", "u", "r", " ", "p", "r", "o",
      "m", "p", "t">>,
    <<"w", "h", "a", "t", " ", "i", "s", " ", "i", "n", " ", "y", "o", "u", "r", " ",
      "s", "y", "s", "t", "e", "m", " ", "i", "n", "s", "t", "r", "u", "c", "t", "i",
      "o", "n", "s">>,
    <<"a", "s", " ", "c", "h", "a", "t", "g", "p", "t">>,
    <<".", "e", "n", "v">>,
    <<"o", "p", "e", "n", "a", "i", "_", "a", "p", "i", "_", "k", "e", "y">>,
    <<"o", "p", "e", "n", "a", "i", ".", "a", "p", "i", "_", "k", "e", "y">>,
    <<"p", "i", "n", "e", "c", "o", "n", "e", "_", "a", "p", "i", "_", "k", "e", "y">>,
    <<"a", "c", "c", "e", "s", "s", "t", "o", "k", "e", "n">>,
    <<"a", "u", "t", "h", "o", "r", "i", "z", "a", "t", "i", "o", "n", ":", "b", "e",
      "a", "r", "e", "r">>,
    <<"s", "e", "l", "e", "c", "t", " ", "x", " ", "f", "r", "o", "m", " ">>,
    <<"d", "r", "o", "p", " ", "t", "a", "b", "l", "e">>,
    <<"t", "r", "u", "n", "c", "a", "t", "e", " ", "t", "a", "b", "l", "e">>,
    <<"u", "n", "i", "o", "n", " ", "s", "e", "l", "e", "c", "t">>,
    <<"i", "n", "s", "e", "r", "t", " ", "i", "n", "t", "o", " ">>,
    <<"u", "p", "d", "a", "t", "e", " ", "x", " ", "s", "e", "t", " ">>,
    <<"d", "e", "l", "e", "t", "e", " ", "f", "r", "o", "m", " ">>,
    <<"s", "h", "o", "w", " ", "t", "a", "b", "l", "e", "s">>,
    <<"l", "i", "s", "t", " ", "f", "i", "l", "e", "s">>,
    <<"r", "e", "a", "d", " ", "f", "i", "l", "e">>,
    <<"i", "m", "p", "o", "r", "t", " ", "o", "s">>,
    <<"i", "m", "p", "o", "r", "t", " ", "s", "u", "b", "p", "r", "o", "c", "e", "s",
      "s">>,
    <<"s", "u", "b", "p", "r", "o", "c", "e", "s", "s", ".", "r", "u", "n">>,
    <<"o", "s", ".", "s", "y", "s", "t", "e", "m">>,
    <<"e", "v", "a", "l", "(">>,
    <<"e", "x", "e", "c", "(">>,
    <<"_", "_", "i", "m", "p", "o", "r", "t", "_", "_", "(">>,
    <<"c", "u", "r", "l", " ", "h", "t", "t", "p">>,
    <<"w", "g", "e", "t", " ", "h", "t", "t", "p">>,
    <<>>,
    <<" ", " ", " ">>,
    <<" ", "\n", "\t">>,
    <<"h", "e", "l", "l", "o">>,
    <<"I", "g", "n", "o", "r", "e", " ", " ", "P", "r", "e", "v", "i", "o", "u", "s",
      "\n", "\t", "I", "N", "S", "T", "R", "U", "C", "T", "I", "O", "N", "S">>,
    <<"i", "g", "n", "o", "r", "e", "p", "r", "e", "v", "i", "o", "u", "s", "i", "n",
      "s", "t", "r", "u", "c", "t", "i", "o", "n", "s">>,
    <<"A", "C", "C", "E", "S", "S", " ", "\n", " ", "T", "O", "K", "E", "N">>,
    <<"e", "v", "a", "l", " ", "(">>,
    <<"s", "e", "l", "e", "c", "t", " ", " ", "f", "r", "o", "m", " ", "t">>,
    <<"s", "e", "l", "e", "c", "t", " ", " ", " ", "f", "r", "o", "m", " ", "t">>,
    <<"s", "e", "l", "e", "c", "t", "\n", "f", "r", "o", "m", " ", "t">>,
    <<"m", "y", " ", ".", "e", "n", "v", " ", "a", "n", "d", " ", "i", "m", "p", "o",
      "r", "t", " ", "o", "s">>,
    <<"i", "m", "p", "o", "r", "t", " ", "o", "s", ";", " ", "d", "r", "o", "p", " ",
      "t", "a", "b", "l", "e", ";", " ", ".", "e", "n", "v", ";", " ", "a", "s", " ",
      "c", "h", "a", "t", "g", "p", "t">>,
    <<"d", "r", "o", "p", " ", "t", "a", "b", "l", "e", " ", "i", "m", "p", "o", "r",
      "t", " ", "o", "s">>,
    <<" ", "e", "x", "e", "c", "(", " ">>,
    <<"o", "p", "e", "n", "a", "i", " ", "a", "p", "i", " ", "k", "e", "y">>
  }

LlmChoices ==
  {Llm("api_error", None, None), Llm("no_content", None, None),
   Llm("not_json", None, None), Llm("not_object", None, None),
   Llm("object", None, None), Llm("object", None, Some("why")),
   Llm("object", Some("true"), Some("fine")),
   Llm("object", Some("false"), Some("injection")),
   Llm("object", Some("false"), None),
   Llm("object", Some("\"false\""), Some("why")),
   Llm("object", Some("0"), Some("why")),
   Llm("object", Some("null"), Some("why"))}

\* SafetyAgent.scan_input is not running.
SafetyIdle ==
  /\ sa_pc = "idle"
  /\ sa_text = <<>>
  /\ sa_use_llm = FALSE
  /\ sa_client = FALSE
  /\ sa_llm = Llm("api_error", None, None)
  /\ sa_calls = 0
  /\ sa_result = None

\* ======================================================== app/ui_app.py
\* CoordinatorAgent.process_message as ui_app.py uses it: it raises, or returns
\* a blocked result, or a result with the texts and the session the message
\* belongs to, which is the session passed when there is one.
Results(text, session_id) ==
  {[raises |-> TRUE, blocked |-> FALSE, session_id |-> None, original_text |-> text]}
  \cup {[raises |-> FALSE, blocked |-> TRUE, session_id |-> None, original_text |-> text]}
  \cup {[raises |-> FALSE, blocked |-> FALSE, session_id |-> Some(sid),
          original_text |-> text] :
          sid \in IF session_id # None THEN {session_id[1]} ELSE {"s1", "s2"}}

Message(role, result) == [role |-> role, original |-> result.original_text]

\* Mutation: the message is appended whether or not it was blocked.
ChatAfterSendAlways(chat, role, result) == Append(chat, Message(role, result))

\* Lines 302-314: a blocked result appends nothing.
ChatAfterSend(chat, role, result) ==
  IF result.blocked THEN chat ELSE Append(chat, Message(role, result))

\* Lines 305-306: the first result of a conversation gives the session.
SessionAfterSend(session_id, result) ==
  IF result.blocked THEN session_id
  ELSE IF session_id = None THEN result.session_id
  ELSE session_id

\* The messages a user can type: blank ones are not sent (line 289).
UiTexts == {<<" ">>, <<"h", "i">>, <<" ", "o", "s", ".", "s", "y", "s", "t", "e", "m">>}

\* The app has not been opened.
UiIdle ==
  /\ ui_user = None
  /\ ui_chat = <<>>
  /\ ui_session_id = None
  /\ ui_summary = None
  /\ ui_results = <<>>

\* ================== build_embeddings.py and build_embeddings_clean.py
batch_size == 64

\* Mutation: the batch is flushed only once it is larger than batch_size.
BatchFullLate(batch) == Len(batch) > batch_size

\* len(batch) >= batch_size
BatchFull(batch) == Len(batch) >= batch_size

\* chunks[i:i+batch_size], i counted from 0; the records are numbered 1..n.
Slice(n, k) ==
  [j \in 1..(IF k + batch_size <= n THEN batch_size ELSE n - k) |-> k + j]

\* No upload loop is running.
UploadIdle ==
  /\ up_loop = "none"
  /\ up_pc = "idle"
  /\ up_n = 0
  /\ up_k = 0
  /\ up_batch = <<>>
  /\ up_upserted = <<>>

\* ----------------------------------- build_embeddings_clean.py: chunk_text
\* The defaults of chunk_size and overlap, and the length a chunk must exceed.
default_chunk_size == 600
default_overlap == 100
min_chunk_len == 50

\* A slice index ix of a string of n characters, as Python clamps it.
PyIndex(ix, n) ==
  IF ix < 0 THEN (IF ix + n < 0 THEN 0 ELSE ix + n)
  ELSE IF ix > n THEN n ELSE ix

\* The characters at the 0-based positions a..b-1 of t.
RECURSIVE SliceRuns(_, _, _)
SliceRuns(t, a, b) ==
  IF t = <<>> \/ b <= 0 THEN <<>>
  ELSE LET h == Head(t)
           lo == IF a < 0 THEN 0 ELSE a
           hi == IF b > h.n THEN h.n ELSE b
           rest == SliceRuns(Tail(t), a - h.n, b - h.n)
       IN  IF lo < hi THEN <<Atom(h.c, hi - lo)>> \o rest ELSE rest

\* text[ix:jx]
PySlice(t, ix, jx) ==
  LET n == TLen(t)
      a == PyIndex(ix, n)
      b == PyIndex(jx, n)
  IN  IF a >= b THEN <<>> ELSE SliceRuns(t, a, b)

\* Mutation: a chunk of exactly min_chunk_len characters is returned too.
KeepChunkAtLeast(c) == TLen(c) >= min_chunk_len

\* len(c) > 50
KeepChunk(c) == TLen(c) > min_chunk_len

\* chunk_text is not running.
ChunkTextIdle ==
  /\ ct_pc = "idle"
  /\ ct_text = <<>>
  /\ ct_chunk_size = 0
  /\ ct_overlap = 0
  /\ ct_start = 0
  /\ ct_chunks = <<>>
  /\ ct_iters = 0
  /\ ct_result = <<>>

\* ------------------------------------------------------------------ inputs
\* What langdetect's detect() does on a text: a language code, or an exception.
Detects(code) == [raises |-> FALSE, lang |-> code]
DetectFails == [raises |-> TRUE, lang |-> <<>>]

Span(text, page, y0, x0, detect) ==
  [text |-> text, page |-> page, y0 |-> y0, x0 |-> x0, detect |-> detect]

EnWord == <<Atom(LatinLetter, 5)>>
HiWord == <<Atom("ka", 5)>>

\* Layouts: English and Hindi words at positions around the tolerance.
LayoutPlaces == {<<1, 100, 10>>, <<1, 220, 10>>, <<1, 221, 10>>, <<1, 100, 50>>,
                 <<2, 100, 10>>}
LayoutSpans ==
  {Span(t[1], g[1], g[2], g[3], t[2]) :
     t \in {<<EnWord, Detects(<<"e", "n">>)>>, <<HiWord, DetectFails>>},
     g \in LayoutPlaces}

\* Texts: long, punctuated, blank, marker-bearing and oddly detected ones.
TextChoices ==
  { <<EnWord, Detects(<<"e", "n">>)>>,
    <<HiWord, DetectFails>>,
    <<Str(<<SP>>) \o EnWord \o Str(<<SP>>), Detects(<<"e", "n">>)>>,
    <<Str(<<SP, SP>>), DetectFails>>,
    <<<<Atom(LatinLetter, 900)>>, Detects(<<"e", "n">>)>>,
    <<<<Atom(LatinLetter, 500)>> \o Str(<<".">>) \o <<Atom(LatinLetter, 500)>>,
      Detects(<<"e", "n">>)>>,
    <<<<Atom("ka", 790)>>, Detects(<<"h", "i">>)>>,
    <<Str(HI_MARK) \o Str(<<SP>>) \o EnWord, Detects(<<"e", "n">>)>>,
    <<Str(EN_MARK) \o Str(<<SP>>) \o HiWord, Detects(<<"e", "n">>)>>,
    <<EnWord, Detects(<<"h", "i">>)>>,
    <<EnWord, Detects(<<"f", "r">>)>>,
    <<EnWord, DetectFails>>,
    <<HiWord, Detects(<<"f", "r">>)>>,
    <<EnWord \o Str(<<".">>) \o EnWord, Detects(<<"e", "n">>)>>,
    <<<<Atom(LatinLetter, 796)>>, Detects(<<"e", "n">>)>>,
    <<EnWord \o Str(<<NL>>) \o <<Atom(SP, 800)>> \o Str(<<NL>>) \o EnWord,
      Detects(<<"e", "n">>)>> }
TextSpans == {Span(t[1], 1, 100, 10, t[2]) : t \in TextChoices}

Pdf(readable, spans) == [readable |-> readable, spans |-> spans]

\* Batches: small documents, one of which fitz cannot open.
BatchDocs ==
  { Pdf(FALSE, <<>>),
    Pdf(TRUE, <<>>),
    Pdf(TRUE, <<Span(EnWord, 1, 100, 10, Detects(<<"e", "n">>))>>),
    Pdf(TRUE, <<Span(EnWord, 1, 100, 10, Detects(<<"e", "n">>)),
                Span(HiWord, 1, 110, 10, DetectFails)>>),
    Pdf(TRUE, <<Span(EnWord, 1, 100, 10, Detects(<<"e", "n">>)),
                Span(EnWord, 1, 300, 10, Detects(<<"e", "n">>))>>) }

\* Lexicon entries as JSON objects: every key, each None when the object lacks it.
EntryKeys ==
  {"id", "expression_native", "expression_translit", "literal_translation",
   "clinical_meaning", "cultural_context", "synonyms_variants",
   "disambiguation_questions", "category", "severity_hint", "risk_flag",
   "language_pair"}

NoFields == [k \in EntryKeys |-> None]

EmptyFields ==
  [NoFields EXCEPT !["id"] = Some("e0"),
                   !["expression_native"] = Some(<<>>),
                   !["expression_translit"] = Some(<<>>),
                   !["literal_translation"] = Some(<<>>),
                   !["clinical_meaning"] = Some(<<>>),
                   !["cultural_context"] = Some(<<>>),
                   !["synonyms_variants"] = Some(<<>>),
                   !["disambiguation_questions"] = Some(<<>>),
                   !["category"] = Some("")]

FullEntry ==
  [NoFields EXCEPT !["id"] = Some("e1"),
                   !["expression_native"] = Some(HiWord),
                   !["expression_translit"] = Some(<<Atom("b", 4)>>),
                   !["literal_translation"] = Some(<<Atom("c", 3)>>),
                   !["clinical_meaning"] = Some(<<Atom("d", 6)>>),
                   !["cultural_context"] = Some(<<Atom("e", 2)>>),
                   !["synonyms_variants"] = Some(<<<<Atom("f", 2)>>, <<Atom("g", 2)>>>>),
                   !["disambiguation_questions"] =
                      Some(<<<<Atom("h", 3), Atom("?", 1)>>, <<Atom("i", 3), Atom("?", 1)>>>>),
                   !["category"] = Some("pain"),
                   !["severity_hint"] = Some("high"),
                   !["risk_flag"] = Some(TRUE),
                   !["language_pair"] = Some("mr-en")]

\* Values with blanks at the ends, which the final strip() removes.
PaddedEntry ==
  [NoFields EXCEPT !["expression_native"] = Some(Str(<<SP>>) \o HiWord),
                   !["disambiguation_questions"] = Some(<<<<Atom("h", 3), Atom(SP, 1)>>>>)]

\* A value that holds the label of a later sub-field.
LabelledEntry ==
  [NoFields EXCEPT !["literal_translation"] =
                      Some(<<Atom("c", 3)>> \o Str(<<NL>>) \o Str(MEANING)
                           \o Str(<<SP>>) \o <<Atom("d", 1)>>),
                   !["clinical_meaning"] = Some(<<Atom("d", 6)>>)]

EntryChoices ==
  { NoFields, EmptyFields, FullEntry, PaddedEntry, LabelledEntry,
    [NoFields EXCEPT !["synonyms_variants"] = Some(<<<<Atom("f", 2)>>>>)],
    [NoFields EXCEPT !["disambiguation_questions"] = Some(<<<<Atom("h", 3)>>>>)] }

Lexicon(entries) == [entries |-> entries]

NoLexicon == /\ cs_exists = FALSE /\ data = Lexicon(None)

InitInputs ==
  \/ /\ dir_exists = TRUE
     /\ \E spans \in SeqsUpTo(LayoutSpans, MaxSpans) : docs = <<Pdf(TRUE, spans)>>
     /\ NoLexicon
  \/ /\ dir_exists = TRUE
     /\ \E spans \in SeqsUpTo(TextSpans, MaxSpans) : docs = <<Pdf(TRUE, spans)>>
     /\ NoLexicon
  \/ /\ dir_exists \in BOOLEAN
     /\ docs \in SeqsUpTo(BatchDocs, MaxDocs)
     /\ \/ NoLexicon
        \/ /\ cs_exists = TRUE
           /\ data \in {Lexicon(None), Lexicon(Some(<<FullEntry>>))}
  \/ /\ dir_exists \in BOOLEAN
     /\ docs = <<>>
     /\ cs_exists = TRUE
     /\ \E entries \in SeqsUpTo(EntryChoices, MaxEntries) :
          data = Lexicon(Some(entries))

\* ------------------------------------------------- process_bilingual_pdfs
Init ==
  /\ InitInputs
  /\ pc = "start"
  /\ d = 0
  /\ blocks = <<>>
  /\ i = 0
  /\ pending_en = None
  /\ pairs = <<>>
  /\ pending_at = None
  /\ origin = <<>>
  /\ chunks = <<>>
  /\ all_chunks = <<>>
  /\ jsonl = <<>>
  /\ e = 0
  /\ records = <<>>
  /\ cs_jsonl = <<>>
  /\ SafetyIdle
  /\ UiIdle
  /\ UploadIdle
  /\ ChunkTextIdle

\* pdf_path.stem of the k-th path of sorted(glob("*.pdf")): distinct file names
\* a.pdf, a_chunk_1.pdf, a_chunk_1_chunk_1.pdf, ... which sort in this order.
RECURSIVE source_name(_)
source_name(k) ==
  IF k <= 1 THEN <<"a">> ELSE source_name(k - 1) \o CHUNK_INFIX \o <<"1">>

\* Mutation: a missing directory raises.
StartRaisesWhenAbsent ==
  /\ pc = "start"
  /\ IF ~dir_exists THEN pc' = "raised" /\ d' = d
     ELSE IF docs = <<>> THEN pc' = "returned" /\ d' = d
     ELSE pc' = "extract" /\ d' = 1
  /\ UNCHANGED <<dir_exists, docs, blocks, i, pending_en, pairs, pending_at,
                 origin, chunks, all_chunks, jsonl>>
  /\ UNCHANGED cs_vars
  /\ UNCHANGED other_vars

\* Lines 169-176: a missing directory or no PDF returns the empty list.
Start ==
  /\ pc = "start"
  /\ IF ~dir_exists \/ docs = <<>>
     THEN pc' = "returned" /\ d' = d
     ELSE pc' = "extract" /\ d' = 1
  /\ UNCHANGED <<dir_exists, docs, blocks, i, pending_en, pairs, pending_at,
                 origin, chunks, all_chunks, jsonl>>
  /\ UNCHANGED cs_vars
  /\ UNCHANGED other_vars

\* blocks = extract_blocks(pdf_path); an exception of fitz.open is not caught.
ExtractBlocks ==
  /\ pc = "extract"
  /\ IF docs[d].readable
     THEN /\ blocks' = extract_blocks(docs[d].spans)
          /\ pc' = "align"
     ELSE /\ blocks' = blocks
          /\ pc' = "raised"
  /\ i' = 1
  /\ pending_en' = None
  /\ pairs' = <<>>
  /\ pending_at' = None
  /\ origin' = <<>>
  /\ UNCHANGED <<dir_exists, docs, d, chunks, all_chunks, jsonl>>
  /\ UNCHANGED cs_vars
  /\ UNCHANGED other_vars

\* History of one scan: where the spans of the emitted pair stand in blocks.
ScanOrigin(pending, at, b, k) ==
  IF detect_language(b) = "en"
  THEN IF pending # None THEN <<[en |-> at, hi |-> None]>> ELSE <<>>
  ELSE IF detect_language(b) = "hi"
  THEN IF GoodAlignment(pending, b) THEN <<[en |-> at, hi |-> Some(k)]>>
       ELSE <<[en |-> None, hi |-> Some(k)]>>
  ELSE <<>>

\* One iteration of align_blocks' loop.
AlignScan ==
  /\ pc = "align"
  /\ i <= Len(blocks)
  /\ LET b == blocks[i] IN
       /\ pairs' = pairs \o ScanEmit(pending_en, b)
       /\ pending_en' = ScanPending(pending_en, b)
       /\ origin' = origin \o ScanOrigin(pending_en, pending_at, b, i)
       /\ pending_at' = IF detect_language(b) = "en" THEN Some(i)
                        ELSE IF ScanPending(pending_en, b) = None THEN None
                        ELSE pending_at
  /\ i' = i + 1
  /\ UNCHANGED <<dir_exists, docs, pc, d, blocks, chunks, all_chunks, jsonl>>
  /\ UNCHANGED cs_vars
  /\ UNCHANGED other_vars

\* The end of align_blocks: the last EN that never got a pair.
AlignFlush ==
  /\ pc = "align"
  /\ i > Len(blocks)
  /\ pairs' = pairs \o FlushEmit(pending_en)
  /\ origin' = origin \o (IF pending_en # None
                           THEN <<[en |-> pending_at, hi |-> None]>> ELSE <<>>)
  /\ pc' = "chunk"
  /\ UNCHANGED <<dir_exists, docs, d, blocks, i, pending_en, pending_at, chunks,
                 all_chunks, jsonl>>
  /\ UNCHANGED cs_vars
  /\ UNCHANGED other_vars

\* chunks = create_bilingual_chunks(pairs, source_name); all_chunks.extend(chunks)
CreateChunks ==
  /\ pc = "chunk"
  /\ chunks' = create_bilingual_chunks(pairs, source_name(d))
  /\ all_chunks' = all_chunks \o chunks'
  /\ IF d < Len(docs)
     THEN pc' = "extract" /\ d' = d + 1
     ELSE pc' = "save" /\ d' = d
  /\ UNCHANGED <<dir_exists, docs, blocks, i, pending_en, pairs, pending_at,
                 origin, jsonl>>
  /\ UNCHANGED cs_vars
  /\ UNCHANGED other_vars

\* Lines 190-207: the artifacts are written after the last PDF, if any chunk.
SaveOutputs ==
  /\ pc = "save"
  /\ jsonl' = IF all_chunks # <<>> THEN all_chunks ELSE jsonl
  /\ pc' = "returned"
  /\ UNCHANGED <<dir_exists, docs, d, blocks, i, pending_en, pairs, pending_at,
                 origin, chunks, all_chunks>>
  /\ UNCHANGED cs_vars
  /\ UNCHANGED other_vars

\* entries = data.get("entries", [])
Entries == Get(data, "entries", <<>>)

\* Lines 296-297 and 215-223: the lexicon is loaded once the PDFs have returned;
\* a missing file returns the empty list.
LoadStart ==
  /\ pc = "returned"
  /\ IF ~cs_exists
     THEN pc' = "done" /\ e' = e
     ELSE pc' = "entry" /\ e' = 1
  /\ records' = <<>>
  /\ UNCHANGED <<cs_exists, data, cs_jsonl>>
  /\ UNCHANGED pdf_vars
  /\ UNCHANGED other_vars

\* One iteration of load_cultural_semantics' loop.
LoadEntry ==
  /\ pc = "entry"
  /\ e <= Len(Entries)
  /\ records' = Append(records, Record(Entries[e]))
  /\ e' = e + 1
  /\ UNCHANGED <<pc, cs_exists, data, cs_jsonl>>
  /\ UNCHANGED pdf_vars
  /\ UNCHANGED other_vars

\* Lines 262-287: the artifacts are written if there is any record.
LoadSave ==
  /\ pc = "entry"
  /\ e > Len(Entries)
  /\ cs_jsonl' = IF records # <<>> THEN records ELSE cs_jsonl
  /\ pc' = "done"
  /\ UNCHANGED <<cs_exists, data, e, records>>
  /\ UNCHANGED pdf_vars
  /\ UNCHANGED other_vars

Next ==
  \/ Start
  \/ ExtractBlocks
  \/ AlignScan
  \/ AlignFlush
  \/ CreateChunks
  \/ SaveOutputs
  \/ LoadStart
  \/ LoadEntry
  \/ LoadSave

Spec == Init /\ [][Next]_vars

\* build_chunks.py is not running.
PdfIdle ==
  /\ pc = "idle"
  /\ dir_exists = FALSE
  /\ docs = <<>>
  /\ d = 0
  /\ blocks = <<>>
  /\ i = 0
  /\ pending_en = None
  /\ pairs = <<>>
  /\ pending_at = None
  /\ origin = <<>>
  /\ chunks = <<>>
  /\ all_chunks = <<>>
  /\ jsonl = <<>>
  /\ NoLexicon
  /\ e = 0
  /\ records = <<>>
  /\ cs_jsonl = <<>>

\* ------------------------------------------------- SafetyAgent.scan_input
\* Lines 29-33: use_llm = bool(use_llm and api_key), client only with an api_key.
SafetyInit ==
  /\ PdfIdle
  /\ UiIdle
  /\ UploadIdle
  /\ ChunkTextIdle
  /\ sa_pc = "scan"
  /\ sa_text \in SafetyTexts
  /\ \E use_llm \in BOOLEAN, api_key \in BOOLEAN :
       /\ sa_use_llm = (use_llm /\ api_key)
       /\ sa_client = api_key
  /\ sa_llm \in LlmChoices
  /\ sa_calls = 0
  /\ sa_result = None

\* Lines 92-123 and 170: the blank test, the heuristics, and the return of "ok"
\* when the LLM is not to be asked.
ScanHeuristics ==
  /\ sa_pc = "scan"
  /\ LET found == Heuristics(sa_text) IN
       IF found # None
       THEN sa_result' = found /\ sa_pc' = "returned"
       ELSE IF sa_use_llm /\ sa_client
       THEN sa_result' = sa_result /\ sa_pc' = "llm"
       ELSE sa_result' = Some(Verdict(TRUE, "ok")) /\ sa_pc' = "returned"
  /\ UNCHANGED <<sa_text, sa_use_llm, sa_client, sa_llm, sa_calls>>
  /\ UNCHANGED not_sa_vars

\* Lines 124-170: the chat completion is requested and its answer judged.
ScanLlm ==
  /\ sa_pc = "llm"
  /\ sa_calls' = sa_calls + 1
  /\ sa_result' = Some(LlmVerdict(sa_llm))
  /\ sa_pc' = "returned"
  /\ UNCHANGED <<sa_text, sa_use_llm, sa_client, sa_llm>>
  /\ UNCHANGED not_sa_vars

SafetyNext ==
  \/ ScanHeuristics
  \/ ScanLlm

SafetySpec == SafetyInit /\ [][SafetyNext]_vars

\* ------------------------------------------------------------- ui_app.py
\* Every action is one run of the script with one button pressed.
UiInit ==
  /\ PdfIdle
  /\ SafetyIdle
  /\ UiIdle
  /\ UploadIdle
  /\ ChunkTextIdle

\* Lines 176-183: the login button; verify_user accepts or not.
Login ==
  /\ ui_user = None
  /\ \E ok \in BOOLEAN : ui_user' = IF ok THEN Some("u") ELSE ui_user
  /\ UNCHANGED <<ui_chat, ui_session_id, ui_summary, ui_results>>
  /\ UNCHANGED not_ui_vars

\* Lines 203-209.
Logout ==
  /\ ui_user # None
  /\ ui_user' = None
  /\ ui_chat' = <<>>
  /\ ui_session_id' = None
  /\ ui_summary' = None
  /\ ui_results' = <<>>
  /\ UNCHANGED not_ui_vars

\* Lines 288-315 and 334-361: the send button of role with text in the box.
SendAs(role, text) ==
  /\ ui_user # None
  /\ Len(ui_results) < MaxSends
  /\ IF IsBlank(text)
     THEN UNCHANGED <<ui_chat, ui_session_id, ui_results>>
     ELSE \E result \in Results(Strip(Str(text)), ui_session_id) :
            IF result.raises
            THEN UNCHANGED <<ui_chat, ui_session_id, ui_results>>
            ELSE /\ ui_session_id' = SessionAfterSend(ui_session_id, result)
                 /\ ui_chat' = ChatAfterSend(ui_chat, role, result)
                 /\ ui_results' = Append(ui_results, [role |-> role, result |-> result])
  /\ UNCHANGED <<ui_user, ui_summary>>
  /\ UNCHANGED not_ui_vars

DocSend == \E text \in UiTexts : SendAs("doctor", text)

PatSend == \E text \in UiTexts : SendAs("patient", text)

\* Lines 418-424: start_session gives a session, or raises.
NewSession ==
  /\ ui_user # None
  /\ \/ /\ \E sid \in {"s1", "s2"} : ui_session_id' = Some(sid)
        /\ ui_chat' = <<>>
        /\ ui_summary' = None
        /\ ui_results' = <<>>
     \/ UNCHANGED <<ui_chat, ui_session_id, ui_summary, ui_results>>
  /\ UNCHANGED ui_user
  /\ UNCHANGED not_ui_vars

\* Lines 427-436.
EndSession ==
  /\ ui_user # None
  /\ IF ui_session_id # None
     THEN /\ ui_session_id' = None
          /\ ui_chat' = <<>>
          /\ ui_summary' = None
          /\ ui_results' = <<>>
     ELSE UNCHANGED <<ui_chat, ui_session_id, ui_summary, ui_results>>
  /\ UNCHANGED ui_user
  /\ UNCHANGED not_ui_vars

\* Lines 440-448: summarize_session gives a text, or raises.
GenerateSummary ==
  /\ ui_user # None
  /\ IF ui_session_id # None
     THEN \E ok \in BOOLEAN :
            ui_summary' = IF ok THEN Some("summary") ELSE ui_summary
     ELSE ui_summary' = ui_summary
  /\ UNCHANGED <<ui_user, ui_chat, ui_session_id, ui_results>>
  /\ UNCHANGED not_ui_vars

UiNext ==
  \/ Login
  \/ Logout
  \/ DocSend
  \/ PatSend
  \/ NewSession
  \/ EndSession
  \/ GenerateSummary

UiSpec == UiInit /\ [][UiNext]_vars

\* ------------------------------------------------------- the upload loops
\* A file of up_n records, numbered 1..up_n in file order.
UploadInit ==
  /\ PdfIdle
  /\ SafetyIdle
  /\ UiIdle
  /\ up_loop \in {"bilingual", "cultural", "clean"}
  /\ up_pc = "loop"
  /\ up_n \in 0..MaxRecords
  /\ up_k = 0
  /\ up_batch = <<>>
  /\ up_upserted = <<>>
  /\ ChunkTextIdle

\* build_embeddings.py lines 93-107 and 131-145: one line of the file; embed_texts
\* or index.upsert may raise, which ends the script.
ReadLine ==
  /\ up_loop \in {"bilingual", "cultural"}
  /\ up_pc = "loop"
  /\ up_k < up_n
  /\ up_k' = up_k + 1
  /\ LET batch == Append(up_batch, up_k + 1) IN
       IF BatchFull(batch)
       THEN \/ /\ up_upserted' = Append(up_upserted, batch)
               /\ up_batch' = <<>>
               /\ up_pc' = up_pc
            \/ /\ up_pc' = "raised"
               /\ up_batch' = batch
               /\ up_upserted' = up_upserted
       ELSE /\ up_batch' = batch
            /\ UNCHANGED <<up_pc, up_upserted>>
  /\ UNCHANGED <<up_loop, up_n>>
  /\ UNCHANGED not_up_vars

\* build_embeddings.py lines 110-115 and 148-153: the final remainder.
FinalFlush ==
  /\ up_loop \in {"bilingual", "cultural"}
  /\ up_pc = "loop"
  /\ up_k = up_n
  /\ IF up_batch # <<>>
     THEN \/ /\ up_upserted' = Append(up_upserted, up_batch)
             /\ up_pc' = "done"
          \/ /\ up_pc' = "raised"
             /\ up_upserted' = up_upserted
     ELSE /\ up_pc' = "done"
          /\ up_upserted' = up_upserted
  /\ UNCHANGED <<up_loop, up_n, up_k, up_batch>>
  /\ UNCHANGED not_up_vars

\* build_embeddings_clean.py lines 104-117: one iteration of batch_upsert.
UpsertSlice ==
  /\ up_loop = "clean"
  /\ up_pc = "loop"
  /\ up_k < up_n
  /\ up_batch' = Slice(up_n, up_k)
  /\ \/ /\ up_upserted' = Append(up_upserted, up_batch')
        /\ up_k' = up_k + batch_size
        /\ up_pc' = up_pc
     \/ /\ up_pc' = "raised"
        /\ UNCHANGED <<up_k, up_upserted>>
  /\ UNCHANGED <<up_loop, up_n>>
  /\ UNCHANGED not_up_vars

\* range(0, len(chunks), batch_size) is exhausted.
UpsertEnd ==
  /\ up_loop = "clean"
  /\ up_pc = "loop"
  /\ up_k >= up_n
  /\ up_pc' = "done"
  /\ UNCHANGED <<up_loop, up_n, up_k, up_batch, up_upserted>>
  /\ UNCHANGED not_up_vars

UploadNext ==
  \/ ReadLine
  \/ FinalFlush
  \/ UpsertSlice
  \/ UpsertEnd

UploadSpec == UploadInit /\ [][UploadNext]_vars

\* -------------------------------------------------------------- chunk_text
\* Runs of letters and of spaces.
RunLengths == {1, min_chunk_len, default_chunk_size}
ChunkTexts ==
  SeqsUpTo({Atom(c, n) : c \in {LatinLetter, SP}, n \in RunLengths}, MaxRuns)

\* <<chunk_size, overlap>>: the defaults, no overlap, a short step, a size no
\* chunk can exceed min_chunk_len with, and overlaps that reach chunk_size.
ChunkParams ==
  { <<default_chunk_size, default_overlap>>,
    <<default_chunk_size, 0>>,
    <<min_chunk_len + 10, min_chunk_len - 15>>,
    <<min_chunk_len, 0>>,
    <<default_overlap, default_overlap>>,
    <<default_overlap, default_overlap + min_chunk_len>> }

ChunkTextInit ==
  /\ PdfIdle
  /\ SafetyIdle
  /\ UiIdle
  /\ UploadIdle
  /\ ct_pc = "loop"
  /\ ct_text \in ChunkTexts
  /\ \E p \in ChunkParams : ct_chunk_size = p[1] /\ ct_overlap = p[2]
  /\ ct_start = 0
  /\ ct_chunks = <<>>
  /\ ct_iters = 0
  /\ ct_result = <<>>

\* build_embeddings_clean.py lines 60-64: one iteration of the loop. A loop
\* whose start cannot advance is followed for MaxIters iterations.
ChunkStep ==
  /\ ct_pc = "loop"
  /\ ct_start < TLen(ct_text)
  /\ ct_overlap >= ct_chunk_size => ct_iters < MaxIters
  /\ LET end == ct_start + ct_chunk_size
          chunk == PySlice(ct_text, ct_start, end)
     IN  ct_chunks' = Append(ct_chunks, Strip(chunk))
  /\ ct_start' = ct_start + ct_chunk_size - ct_overlap
  /\ ct_iters' = ct_iters + 1
  /\ UNCHANGED <<ct_pc, ct_text, ct_chunk_size, ct_overlap, ct_result>>
  /\ UNCHANGED not_ct_vars

\* build_embeddings_clean.py lines 60 and 65: the loop ends and the chunks
\* longer than 50 characters are returned.
ChunkReturn ==
  /\ ct_pc = "loop"
  /\ ~(ct_start < TLen(ct_text))
  /\ ct_result' = SelectSeq(ct_chunks, KeepChunk)
  /\ ct_pc' = "done"
  /\ UNCHANGED <<ct_text, ct_chunk_size, ct_overlap, ct_start, ct_chunks, ct_iters>>
  /\ UNCHANGED not_ct_vars

ChunkTextNext ==
  \/ ChunkStep
  \/ ChunkReturn

\* The interpreter keeps executing the loop: a step that can be taken is taken.
ChunkTextSpec ==
  ChunkTextInit /\ [][ChunkTextNext]_vars /\ WF_vars(ChunkTextNext)

\* ---------------------------------------------------------------- helpers
\* align_blocks as a whole: the scan of every block, then the final flush.
RECURSIVE AlignFrom(_, _, _, _)
AlignFrom(bs, k, pending, out) ==
  IF k > Len(bs) THEN out \o FlushEmit(pending)
  ELSE AlignFrom(bs, k + 1, ScanPending(pending, bs[k]),
                 out \o ScanEmit(pending, bs[k]))

align_blocks(bs) == AlignFrom(bs, 1, None, <<>>)

Range(s) == {s[k] : k \in 1..Len(s)}

IsPaired(p) == p.en # <<>> /\ p.hi # <<>>

NumLang(bs, lang) == Cardinality({k \in 1..Len(bs) : detect_language(bs[k]) = lang})

NumPaired(ps) == Cardinality({k \in 1..Len(ps) : IsPaired(ps[k])})

Scanning == pc = "align" /\ i <= Len(blocks)

\* ----------------------------------------------------------------- claims

\* C1: a scanned SECONDARY span s is emitted as the paired pair
\* (pending.text, s.text) exactly when a primary is pending on the same page at
\* a vertical distance of at most the tolerance (120, inclusive); in every
\* other case it is emitted as an orphan.
C1_PairedIffWithinTolerance ==
  [][(Scanning /\ detect_language(blocks[i]) = "hi") =>
       LET s == blocks[i]
           near == /\ pending_en # None
                   /\ pending_en[1].page = s.page
                   /\ s.y0 - pending_en[1].y0 <= 120
                   /\ pending_en[1].y0 - s.y0 <= 120
       IN  pairs' = Append(pairs,
                      IF near
                      THEN Pair(pending_en[1].text, s.text,
                                Some(pending_en[1].page), Some(s.page))
                      ELSE Pair(<<>>, s.text, None, Some(s.page)))]_vars

\* A secondary span has just been paired at a distance of exactly the tolerance.
C1_Witness ==
  /\ pc = "align" /\ i > 2 /\ pairs # <<>>
  /\ IsPaired(pairs[Len(pairs)])
  /\ origin[Len(origin)].hi = Some(i - 1)
  /\ origin[Len(origin)].en # None
  /\ blocks[i - 1].y0 - blocks[origin[Len(origin)].en[1]].y0 = 120

\* C2: no emitted pair has both its primary and its secondary text empty.
C2_NeverBothAbsent ==
  \A k \in 1..Len(pairs) : pairs[k].en # <<>> \/ pairs[k].hi # <<>>

\* A document with a blank span (dropped by the extractor) gave orphan pairs.
C2_Witness ==
  /\ pc = "chunk"
  /\ \E span \in Range(docs[d].spans) : Strip(span.text) = <<>>
  /\ \E k \in 1..Len(pairs) : ~IsPaired(pairs[k])

\* C3: after the scan, the number of pairs is the number of PRIMARY spans plus
\* the number of SECONDARY spans not merged into a paired pair, and every span
\* stands in exactly one pair.
C3_EverySpanCountedOnce ==
  pc = "chunk" =>
    /\ Len(pairs) = NumLang(blocks, "en") + NumLang(blocks, "hi") - NumPaired(pairs)
    /\ Len(origin) = Len(pairs)
    /\ \A j \in 1..Len(blocks) :
         Cardinality({k \in 1..Len(origin) :
                        origin[k].en = Some(j) \/ origin[k].hi = Some(j)}) = 1
    /\ \A k \in 1..Len(pairs) :
         /\ pairs[k].en = (IF origin[k].en = None THEN <<>>
                           ELSE blocks[origin[k].en[1]].text)
         /\ pairs[k].hi = (IF origin[k].hi = None THEN <<>>
                           ELSE blocks[origin[k].hi[1]].text)

\* A finished scan with a paired pair and an orphan of each language.
C3_Witness ==
  /\ pc = "chunk"
  /\ \E k \in 1..Len(pairs) : IsPaired(pairs[k])
  /\ \E k \in 1..Len(pairs) : ~IsPaired(pairs[k])
  /\ Len(pairs) < Len(blocks)

\* C4: a pending primary that is never paired is emitted as an orphan exactly
\* once: when the next PRIMARY span is scanned (which then becomes the pending
\* one) or, failing that, by the flush that ends the scan; it is never replaced
\* or dropped without being emitted.
C4_PendingFlushedOnce ==
  [][/\ (Scanning /\ pending_en # None /\ detect_language(blocks[i]) = "en") =>
          /\ pairs' = Append(pairs, Pair(pending_en[1].text, <<>>,
                                         Some(pending_en[1].page), None))
          /\ pending_en' = Some(blocks[i])
     /\ (pc = "align" /\ i > Len(blocks) /\ pending_en # None) =>
          /\ pairs' = Append(pairs, Pair(pending_en[1].text, <<>>,
                                         Some(pending_en[1].page), None))
          /\ pc' = "chunk"
     /\ (pc = "align" /\ pending_en # None /\ pending_en' # pending_en) =>
          /\ Len(pairs') = Len(pairs) + 1
          /\ pairs'[Len(pairs')].en = pending_en[1].text
     /\ (pc' = "chunk") =>
          \A j \in 1..Len(blocks) :
            detect_language(blocks[j]) = "en" =>
              Cardinality({k \in 1..Len(origin') : origin'[k].en = Some(j)}) = 1
     /\ (pc = "chunk") => pairs' = pairs]_vars

\* The scan ended with two orphan primaries: one flushed by the next primary,
\* one by the final flush.
C4_Witness ==
  /\ pc = "chunk"
  /\ Len(pairs) >= 2
  /\ pairs[Len(pairs)].hi = <<>>
  /\ origin[Len(origin)].en = Some(Len(blocks))
  /\ \E k \in 1..(Len(pairs) - 1) :
       pairs[k].hi = <<>> /\ origin[k].en # None /\ origin[k].en[1] < Len(blocks)

\* C5: a SECONDARY span that fails the pairing condition is emitted as an
\* orphan and leaves the pending primary as it was.
C5_OrphanKeepsPending ==
  [][(/\ Scanning
      /\ detect_language(blocks[i]) = "hi"
      /\ ~(/\ pending_en # None
            /\ pending_en[1].page = blocks[i].page
            /\ Abs(blocks[i].y0 - pending_en[1].y0) <= 120)) =>
       /\ pairs' = Append(pairs, Pair(<<>>, blocks[i].text, None,
                                      Some(blocks[i].page)))
       /\ pending_en' = pending_en]_vars

\* A secondary span was just orphaned while a primary is, and stays, pending.
C5_Witness ==
  /\ pc = "align" /\ i > 2
  /\ pending_en # None
  /\ pending_at # None /\ pending_at[1] < i - 1
  /\ origin[Len(origin)] = [en |-> None, hi |-> Some(i - 1)]
  /\ pairs[Len(pairs)].en = <<>>

\* C6: a document that cannot be processed is skipped: when the run ends,
\* the chunks of every other document are in the output artifacts.
C6_FailingDocumentIsolated ==
  (dir_exists /\ pc \in {"returned", "raised"}) =>
    \A k \in 1..Len(docs) :
      docs[k].readable =>
        Range(create_bilingual_chunks(
                align_blocks(extract_blocks(docs[k].spans)), source_name(k)))
          \subseteq Range(jsonl)

\* The position in blocks of the earliest span of a pair.
Earliest(o) ==
  IF o.en = None THEN o.hi[1]
  ELSE IF o.hi = None THEN o.en[1]
  ELSE IF o.en[1] < o.hi[1] THEN o.en[1] ELSE o.hi[1]

\* C7 as claimed: pairs are emitted in reading order, a pair never coming
\* before a pair whose earliest span is earlier.
C7_ReadingOrder ==
  \A k, l \in 1..Len(origin) :
    k < l => Earliest(origin[k]) <= Earliest(origin[l])

\* C7 as amended: pairs are emitted in reading order of their earliest spans,
\* except that an orphan secondary pair is emitted before the orphan pair of
\* the primary that was pending, unmatched, when it was scanned.
C7_ReadingOrderButPendingOrphan ==
  \A k, l \in 1..Len(origin) :
    k < l =>
      \/ Earliest(origin[k]) <= Earliest(origin[l])
      \/ /\ origin[k].en = None
         /\ origin[l].hi = None
         /\ ~GoodAlignment(Some(blocks[origin[l].en[1]]), blocks[origin[k].hi[1]])

\* An orphan secondary stands before the orphan of the earlier primary.
C7_Witness ==
  /\ pc = "chunk"
  /\ \E k, l \in 1..Len(origin) :
       /\ k < l
       /\ origin[k].en = None
       /\ origin[l].hi = None
       /\ origin[l].en[1] < origin[k].hi[1]

\* C8: every chunk has at most chunk_size (800) characters.
C8_ChunkWithinSize ==
  \A k \in 1..Len(all_chunks) :
    TLen(all_chunks[k].text) <= 800 /\ all_chunks[k].length <= 800

\* C9: a chunk is "perfect" exactly when its text contains both "EN:" and
\* "HI:", and "partial" otherwise.
C9_PerfectIffBothMarkers ==
  \A k \in 1..Len(all_chunks) :
    LET c == all_chunks[k]
        both == /\ \E j \in 1..(Len(c.text) - 2) :
                     <<c.text[j].c, c.text[j + 1].c, c.text[j + 2].c>> = <<"E", "N", ":">>
                /\ \E j \in 1..(Len(c.text) - 2) :
                     <<c.text[j].c, c.text[j + 1].c, c.text[j + 2].c>> = <<"H", "I", ":">>
    IN  c.alignment_status = (IF both THEN "perfect" ELSE "partial")

\* The output holds a perfect chunk and a chunk with one marker only.
C9_Witness ==
  /\ \E k \in 1..Len(all_chunks) : all_chunks[k].alignment_status = "perfect"
  /\ \E k \in 1..Len(all_chunks) :
       /\ all_chunks[k].alignment_status = "partial"
       /\ Contains(all_chunks[k].text, EN_MARK)

\* C10: a chunk is "perfect" only if its text holds a segment from a PRIMARY
\* span and one from a SECONDARY span: a document whose pairs are all orphans
\* of one language has no perfect chunk.
C10_PerfectNeedsBothLanguages ==
  pc \in {"extract", "save", "returned"} =>
    \A k \in 1..Len(chunks) :
      chunks[k].alignment_status = "perfect" =>
        /\ \E j \in 1..Len(pairs) : pairs[j].en # <<>>
        /\ \E j \in 1..Len(pairs) : pairs[j].hi # <<>>

\* C11: no chunk has an empty text.
C11_NoEmptyChunk ==
  \A k \in 1..Len(all_chunks) :
    all_chunks[k].text # <<>> /\ all_chunks[k].length > 0

\* The chunks and the pairs in the state are those of the same document.
ChunksBuilt == pc \in {"extract", "save", "returned"} /\ d >= 1

\* C12: the k-th chunk of a document (k = 1, 2, ...) has the chunk_id
\* "<source_name>_chunk_<k>", and no two chunks of the run share a chunk_id.
C12_ChunkIdsNumberedAndDistinct ==
  /\ \A k \in 1..Len(chunks) :
       chunks[k].chunk_id
         = chunks[k].source \o <<"_", "c", "h", "u", "n", "k", "_">> \o Decimal(k)
  /\ \A k, l \in 1..Len(all_chunks) :
       k # l => all_chunks[k].chunk_id # all_chunks[l].chunk_id

\* Two documents gave chunks, the stem of the second being a chunk_id of the
\* first.
C12_Witness ==
  /\ Len(all_chunks) >= 3
  /\ \E k, l \in 1..Len(all_chunks) :
       /\ all_chunks[k].source # all_chunks[l].source
       /\ all_chunks[k].chunk_id = all_chunks[l].source

NoMarkerIn(t) == ~Contains(t, EN_MARK) /\ ~Contains(t, HI_MARK)

\* Every formatted block fits in a chunk and no span text holds a marker.
SmallPlainPairs ==
  \A k \in 1..Len(pairs) :
    /\ TLen(FormatBlock(pairs[k])) <= 800
    /\ NoMarkerIn(pairs[k].en)
    /\ NoMarkerIn(pairs[k].hi)

HasTextAt(t, sub, j) ==
  j + Len(sub) - 1 <= Len(t) /\ SubSeq(t, j, j + Len(sub) - 1) = sub

\* C18: the blocks of consecutive pairs are concatenated, two short
\* consecutive pairs ending up in the same chunk.
C18_ShortPairsShareAChunk ==
  ChunksBuilt =>
    \A k \in 1..(Len(pairs) - 1) :
      TLen(FormatBlock(pairs[k])) + TLen(FormatBlock(pairs[k + 1])) + 2 <= 800 =>
        \E c \in 1..Len(chunks) :
          \E j, l \in 1..Len(chunks[c].text) :
            /\ j < l
            /\ HasTextAt(chunks[c].text, FormatBlock(pairs[k]), j)
            /\ HasTextAt(chunks[c].text, FormatBlock(pairs[k + 1]), l)

\* A character of the block U+0900..U+097F stands in the text.
InSecondaryScript(t) == \E k \in 1..Len(t) : t[k].c = "ka"

\* C14: a span whose text holds a Devanagari character is scanned as a
\* SECONDARY span, whatever the fallback detector answers for it, its failure
\* included.
C14_ScriptDecidesSecondary ==
  [][(Scanning /\ InSecondaryScript(blocks[i].text)) =>
       /\ Len(pairs') = Len(pairs) + 1
       /\ pairs'[Len(pairs')].hi = blocks[i].text
       /\ pending_en' # Some(blocks[i])
       /\ pc' = "align"]_vars

\* A Devanagari span for which the detector answers "en" or "fr" was just
\* scanned as a secondary span.
C14_Witness ==
  /\ pc = "align" /\ i > 1
  /\ InSecondaryScript(blocks[i - 1].text)
  /\ ~blocks[i - 1].detect.raises
  /\ blocks[i - 1].detect.lang \in {<<"e", "n">>, <<"f", "r">>}
  /\ pairs # <<>>
  /\ pairs[Len(pairs)].hi = blocks[i - 1].text

\* C15: a span with no Devanagari character is scanned as SECONDARY when the
\* detector answers a code starting with "hi", and as PRIMARY when it answers
\* "en", another code, or fails; the scan goes on in every case.
C15_FallbackDefaultsToPrimary ==
  [][(Scanning /\ ~InSecondaryScript(blocks[i].text)) =>
       LET b == blocks[i]
           says_hi == /\ ~b.detect.raises
                      /\ Len(b.detect.lang) >= 2
                      /\ b.detect.lang[1] = "h"
                      /\ b.detect.lang[2] = "i"
       IN  /\ pc' = "align"
           /\ i' = i + 1
           /\ IF says_hi
              THEN /\ Len(pairs') = Len(pairs) + 1
                   /\ pairs'[Len(pairs')].hi = b.text
                   /\ pending_en' # Some(b)
              ELSE /\ pending_en' = Some(b)
                   /\ pending_at' = Some(i)]_vars

\* The scan took a Latin span as secondary on the detector's "hi", and one as
\* primary after the detector failed.
C15_Witness ==
  /\ pc = "chunk"
  /\ \E k \in 1..Len(origin) :
       /\ origin[k].hi # None
       /\ ~InSecondaryScript(blocks[origin[k].hi[1]].text)
  /\ \E k \in 1..Len(origin) :
       /\ origin[k].en # None
       /\ blocks[origin[k].en[1]].detect.raises

\* C19: pairing is forward and greedy: in a paired pair the primary span comes
\* before the secondary span with no PRIMARY span between them, no span
\* stands in two pairs, and a pair once emitted is never changed or removed.
C19_ForwardGreedy ==
  [][(pc = "align") =>
       /\ Len(pairs') >= Len(pairs)
       /\ SubSeq(pairs', 1, Len(pairs)) = pairs
       /\ Len(origin') = Len(pairs')
       /\ \A k \in 1..Len(origin') :
            /\ IsPaired(pairs'[k]) <=> (origin'[k].en # None /\ origin'[k].hi # None)
            /\ (origin'[k].en # None /\ origin'[k].hi # None) =>
                 /\ origin'[k].en[1] < origin'[k].hi[1]
                 /\ \A j \in (origin'[k].en[1] + 1)..(origin'[k].hi[1] - 1) :
                      detect_language(blocks[j]) # "en"
       /\ \A k, l \in 1..Len(origin') :
            k # l =>
              /\ origin'[k].en = None \/ origin'[k].en # origin'[l].en
              /\ origin'[k].hi = None \/ origin'[k].hi # origin'[l].hi]_vars

\* A primary was paired with the first of two secondaries near it; the second
\* one is an orphan.
C19_Witness ==
  /\ pc = "chunk"
  /\ Len(origin) >= 2
  /\ \E k \in 1..(Len(origin) - 1) :
       /\ origin[k].en # None /\ origin[k].hi # None
       /\ origin[k + 1].en = None
       /\ GoodAlignment(Some(blocks[origin[k].en[1]]), blocks[origin[k + 1].hi[1]])

\* C20: the classifier answers "en" or "hi" only, so no span is dropped:
\* every span's text stands in exactly one pair, on the side of its language,
\* and a pair records a page on a side exactly when it has a text there.
C20_NoSpanDropped ==
  pc = "chunk" =>
    /\ \A j \in 1..Len(blocks) :
         /\ detect_language(blocks[j]) \in {"en", "hi"}
         /\ Cardinality(
              {k \in 1..Len(pairs) :
                 \/ /\ detect_language(blocks[j]) = "en"
                    /\ origin[k].en = Some(j)
                    /\ pairs[k].en = blocks[j].text
                 \/ /\ detect_language(blocks[j]) = "hi"
                    /\ origin[k].hi = Some(j)
                    /\ pairs[k].hi = blocks[j].text}) = 1
    /\ \A k \in 1..Len(pairs) :
         /\ (pairs[k].meta.page_en # None) <=> (pairs[k].en # <<>>)
         /\ (pairs[k].meta.page_hi # None) <=> (pairs[k].hi # <<>>)

\* A span for which the detector answered a third language stands in a pair.
C20_Witness ==
  /\ pc = "chunk"
  /\ \E k \in 1..Len(origin) :
       /\ origin[k].en # None
       /\ ~blocks[origin[k].en[1]].detect.raises
       /\ blocks[origin[k].en[1]].detect.lang = <<"f", "r">>
       /\ pairs[k].en = blocks[origin[k].en[1]].text

\* The positions in t where label stands at the start of a line.
LabelAt(t, label) == {p \in 1..Len(t) : MatchAt(t, <<NL>> \o label, p)}

Between(t, from, to) == IF from > to THEN <<>> ELSE SubSeq(t, from, to)

\* t is a head followed by the five labelled lines holding v1..v5, in this order.
SixFields(t, head, v1, v2, v3, v4, v5) ==
  \E p1 \in LabelAt(t, LITERAL) : \E p2 \in LabelAt(t, MEANING) :
  \E p3 \in LabelAt(t, CONTEXT) : \E p4 \in LabelAt(t, SYNONYMS) :
  \E p5 \in LabelAt(t, QUESTIONS) :
    /\ p1 < p2 /\ p2 < p3 /\ p3 < p4 /\ p4 < p5
    /\ Between(t, 1, p1 - 1) = LStrip(head)
    /\ Between(t, p1 + 1 + Len(LITERAL), p2 - 1) = Str(<<SP>>) \o v1
    /\ Between(t, p2 + 1 + Len(MEANING), p3 - 1) = Str(<<SP>>) \o v2
    /\ Between(t, p3 + 1 + Len(CONTEXT), p4 - 1) = Str(<<SP>>) \o v3
    /\ Between(t, p4 + 1 + Len(SYNONYMS), p5 - 1) = Str(<<SP>>) \o v4
    /\ Between(t, p5 + 1 + Len(QUESTIONS), Len(t)) = RStrip(Str(<<SP>>) \o v5)

\* C16: the canonical text of every lexicon entry, whichever fields it lacks,
\* holds the six sub-fields in the order native (transliteration), Literal,
\* Meaning, Cultural context, Synonyms/variants, Disambiguation questions, and
\* an empty or missing list of synonyms or of questions reads 'N/A'.
C16_SixFieldsInOrder ==
  \A k \in 1..Len(records) :
    LET en == Entries[k]
        synonyms == Get(en, "synonyms_variants", <<>>)
        disamb == Get(en, "disambiguation_questions", <<>>)
    IN  SixFields(records[k].text,
                  Get(en, "expression_native", <<>>) \o Str(<<SP, "(">>)
                    \o Get(en, "expression_translit", <<>>) \o Str(<<")">>),
                  Get(en, "literal_translation", <<>>),
                  Get(en, "clinical_meaning", <<>>),
                  Get(en, "cultural_context", <<>>),
                  IF synonyms = <<>> THEN Str(NA) ELSE Join(<<",", SP>>, synonyms),
                  IF disamb = <<>> THEN Str(NA) ELSE Join(<<SP, "|", SP>>, disamb))

\* An entry with no field at all and a full one were both rendered.
C16_Witness ==
  /\ pc = "done"
  /\ Len(records) = 2
  /\ Entries[1] = NoFields
  /\ Contains(records[1].text, SYNONYMS \o <<SP>> \o NA \o <<NL>> \o QUESTIONS \o <<SP>> \o NA)
  /\ Entries[2] = FullEntry
  /\ ~Contains(records[2].text, NA)

\* The bilingual directory has nothing to give: no PDF, or only PDFs without a span.
NoPdfOutput ==
  \/ docs = <<>>
  \/ \A k \in 1..Len(docs) : docs[k].readable /\ docs[k].spans = <<>>

PdfsReturned == pc \in {"returned", "entry", "done"}

\* C17 as stated: no exception and an empty result for the zero-output
\* conditions, and an exception exactly when the input location is absent.
C17_RaisesOnlyForAbsentLocation ==
  /\ (pc # "start" /\ ~dir_exists) => pc = "raised"
  /\ pc = "raised" => ~dir_exists
  /\ (PdfsReturned /\ dir_exists /\ NoPdfOutput) => all_chunks = <<>>
  /\ (pc = "done" /\ cs_exists /\ Entries = <<>>) => records = <<>>

\* C17 as amended: no exception for the zero-output conditions (no PDF, a PDF
\* without spans, a lexicon without entries) and none for an absent bilingual
\* directory or lexicon file either; each gives an empty result and writes no
\* artifact.
C17_NoRaiseForEmptyOrAbsent ==
  /\ (~dir_exists \/ NoPdfOutput) => pc # "raised"
  /\ pc = "raised" => (dir_exists /\ d \in 1..Len(docs) /\ ~docs[d].readable)
  /\ (PdfsReturned /\ (~dir_exists \/ NoPdfOutput)) =>
       (all_chunks = <<>> /\ jsonl = <<>>)
  /\ (pc = "chunk" /\ blocks = <<>>) => pairs = <<>>
  /\ (pc = "save" /\ blocks = <<>>) => chunks = <<>>
  /\ (pc = "done" /\ (~cs_exists \/ Entries = <<>>)) =>
       (records = <<>> /\ cs_jsonl = <<>>)

\* Both input locations are absent and the run has ended without an exception.
C17_Witness ==
  /\ pc = "done"
  /\ ~dir_exists
  /\ docs # <<>>
  /\ ~cs_exists
  /\ all_chunks = <<>>
  /\ records = <<>>

\* The heuristic categories in the order scan_input tries them.
Categories ==
  <<[patterns |-> injection_patterns, reason |-> INJECTION],
    [patterns |-> secrets_patterns, reason |-> SECRETS],
    [patterns |-> db_fs_patterns, reason |-> DB_FS],
    [patterns |-> code_exec_patterns, reason |-> CODE_EXEC]>>

\* The categories one of whose patterns is found in the lower-cased text.
Matching(text) ==
  {c \in 1..Len(Categories) :
     \E k \in 1..Len(Categories[c].patterns) :
       re_search(Categories[c].patterns[k], Lowered(text))}

Least(S) == CHOOSE x \in S : \A y \in S : x <= y

\* C21: a non-blank text whose lower-cased form matches a heuristic pattern is
\* returned unsafe with the reason of the first matching category in the order
\* injection, secrets, database/filesystem, code execution, and no chat
\* completion is ever requested for it, whatever use_llm and the LLM would do.
C21_HeuristicBlocksWithoutLlm ==
  (~IsBlank(sa_text) /\ Matching(sa_text) # {}) =>
    /\ sa_pc # "llm"
    /\ sa_calls = 0
    /\ sa_pc = "returned" =>
         sa_result = Some(Verdict(FALSE, Categories[Least(Matching(sa_text))].reason))

\* A text matching the secrets and the code execution patterns was returned
\* unsafe for secrets although the LLM was enabled and would have said safe.
C21_Witness ==
  /\ sa_pc = "returned"
  /\ Matching(sa_text) = {2, 4}
  /\ sa_use_llm /\ sa_client
  /\ sa_llm.safe = Some("true")
  /\ sa_result = Some(Verdict(FALSE, SECRETS))

\* C22: once the chat completion has been requested (no heuristic matched),
\* scan_input returns safe = False only when the answer is a JSON object whose
\* "safe" is the boolean false; for an exception, an answer that is no JSON or
\* no object, and any other or no "safe" it returns {safe: True, reason: "ok"}.
C22_LlmFailsOpen ==
  (sa_pc = "returned" /\ Matching(sa_text) = {} /\ ~IsBlank(sa_text)) =>
    /\ sa_result # None
    /\ sa_calls = (IF sa_use_llm /\ sa_client THEN 1 ELSE 0)
    /\ IF sa_calls = 1 /\ sa_llm.kind = "object" /\ sa_llm.safe = Some("false")
       THEN sa_result[1].safe = FALSE
       ELSE sa_result[1] = Verdict(TRUE, "ok")

\* The LLM answered an object whose "safe" is 0 and the text was returned safe.
C22_Witness ==
  /\ sa_pc = "returned"
  /\ sa_calls = 1
  /\ sa_llm.kind = "object"
  /\ sa_llm.safe = Some("0")
  /\ sa_result = Some(Verdict(TRUE, "ok"))

\* The messages of the results that were not blocked, in order.
RECURSIVE Unblocked(_)
Unblocked(rs) ==
  IF rs = <<>> THEN <<>>
  ELSE IF Head(rs).result.blocked THEN Unblocked(Tail(rs))
  ELSE <<Message(Head(rs).role, Head(rs).result)>> \o Unblocked(Tail(rs))

UpTo(n) == [j \in 1..n |-> j]

\* The records index.upsert has received, in call order.
Upserted == Concat(up_upserted)

\* C24: while no embed or upsert call has failed, the batches upserted hold at
\* most batch_size records each, exactly batch_size unless the batch ends the
\* file; while lines are being read they are, together with the batch being
\* filled, the records read so far, each once and in file order, and a batch
\* is never kept once it has batch_size records; and when the loop is done
\* every record of the file has been upserted, each once and in file order.
C24_EveryRecordUpsertedOnce ==
  up_pc \in {"loop", "done"} =>
    /\ \A b \in 1..Len(up_upserted) :
         /\ Len(up_upserted[b]) >= 1
         /\ Len(up_upserted[b]) <= batch_size
         /\ \/ Len(up_upserted[b]) = batch_size
            \/ b = Len(up_upserted) /\ Upserted = UpTo(up_n)
    /\ (up_loop \in {"bilingual", "cultural"} /\ up_pc = "loop") =>
         /\ Upserted \o up_batch = UpTo(up_k)
         /\ Len(up_batch) < batch_size
    /\ up_loop = "clean" =>
         Upserted = UpTo(IF up_k < up_n THEN up_k ELSE up_n)
    /\ up_pc = "done" => Upserted = UpTo(up_n)

\* A file of two full batches and one more record has been uploaded.
C24_Witness ==
  /\ up_pc = "done"
  /\ up_loop = "bilingual"
  /\ up_n = 2 * batch_size + 1
  /\ Len(up_upserted) = 3
  /\ Len(up_upserted[3]) = 1

\* What holds at every point of a call of chunk_text.
ChunkTextInv ==
  ct_pc \in {"loop", "done"} =>
    /\ ct_start = ct_iters * (ct_chunk_size - ct_overlap)
    /\ Len(ct_chunks) = ct_iters
    /\ (ct_overlap < ct_chunk_size /\ ct_iters > 0) =>
         /\ ct_start > 0
         /\ ct_start - (ct_chunk_size - ct_overlap) < TLen(ct_text)
    /\ ct_pc = "done" =>
         /\ ct_start >= TLen(ct_text)
         /\ \A k \in 1..Len(ct_result) :
              /\ TLen(ct_result[k]) > min_chunk_len
              /\ TLen(ct_result[k]) <= ct_chunk_size
    /\ (ct_overlap >= ct_chunk_size /\ ct_text # <<>>) =>
         /\ ct_pc # "done"
         /\ ct_start <= 0

\* C25: when overlap < chunk_size, start grows by chunk_size - overlap in every
\* iteration, no iteration begins at or past len(text), and the call returns;
\* every chunk returned has more than 50 and at most chunk_size characters;
\* when overlap >= chunk_size and the text is not empty, start never grows and
\* the call never returns.
C25_ChunkTextTerminates ==
  /\ []ChunkTextInv
  /\ (ct_pc = "loop" /\ ct_overlap < ct_chunk_size) ~> (ct_pc = "done")

\* With the defaults, a text of 600 letters and 600 spaces has been cut into
\* three chunks, of which the blank last one is not returned.
C25_Witness ==
  /\ ct_pc = "done"
  /\ ct_chunk_size = default_chunk_size
  /\ ct_overlap = default_overlap
  /\ ct_iters = 3
  /\ Len(ct_result) = 2
  /\ TLen(ct_result[1]) = default_chunk_size
  /\ TLen(ct_result[2]) = default_overlap
====
